---- MODULE Spec2Model ----
(***************************************************************************)
(* A model of go-dotenv: the DotEnv registry (dotenv.go) and the default   *)
(* decoder (parser.go).  A Go string is modelled as a sequence of          *)
(* one-character strings, so that trimming, cutting, prefix tests and case *)
(* conversion are computed character by character as the code does.        *)
(***************************************************************************)
EXTENDS Integers, Sequences, FiniteSets, TLC

VARIABLES
    cachedConfig,       \* DotEnv.cachedConfig: [nil, m]; nil is Go's nil map
    prefix,             \* DotEnv.prefix
    allowEmptyEnvVars,  \* DotEnv.allowEmptyEnvVars
    configFile,         \* DotEnv.configFile
    mu,                 \* DotEnv.mu at rest: "free" or "held"
    d_line,             \* DefaultDecoder.line of the registry's decoder
    environ,            \* the process environment: name -> value
    ret                 \* the last call: its arguments, its outcome, the cache before it

vars == <<cachedConfig, prefix, allowEmptyEnvVars, configFile, mu, d_line, environ, ret>>

----------------------------------------------------------------------------
(* Strings *)

Lower == <<"a","b","c","d","e","f","g","h","i","j","k","l","m",
           "n","o","p","q","r","s","t","u","v","w","x","y","z">>
Upper == <<"A","B","C","D","E","F","G","H","I","J","K","L","M",
           "N","O","P","Q","R","S","T","U","V","W","X","Y","Z">>

ToUpperChar(c) ==
    IF \E i \in DOMAIN Lower : Lower[i] = c
    THEN Upper[CHOOSE i \in DOMAIN Lower : Lower[i] = c]
    ELSE c

\* strings.ToUpper
ToUpper(s) == [i \in 1..Len(s) |-> ToUpperChar(s[i])]

\* strings.HasPrefix(s, p): s begins with p
HasPrefix(s, p) == Len(p) <= Len(s) /\ SubSeq(s, 1, Len(p)) = p

\* strings.TrimPrefix / bytes.TrimPrefix
TrimPrefix(s, p) == IF HasPrefix(s, p) THEN SubSeq(s, Len(p) + 1, Len(s)) ELSE s

\* strings.Contains(s, c) for a one-character c
Contains(s, c) == \E i \in 1..Len(s) : s[i] = c

\* strings.Index(s, c) for a one-character c, 1-based; 0 when absent
Index(s, c) == IF Contains(s, c) THEN CHOOSE i \in 1..Len(s) :
                                        s[i] = c /\ \A j \in 1..(i-1) : s[j] # c
               ELSE 0

\* unicode.IsSpace on the characters a document can hold
IsSpace(c) == c \in {" ", "\t", "\n", "\r", "\f"}

\* strings.TrimSpace
TrimSpace(s) ==
    IF \A i \in 1..Len(s) : IsSpace(s[i]) THEN <<>>
    ELSE LET first == CHOOSE i \in 1..Len(s) :
                          ~IsSpace(s[i]) /\ \A j \in 1..(i-1) : IsSpace(s[j])
             last  == CHOOSE i \in 1..Len(s) :
                          ~IsSpace(s[i]) /\ \A j \in (i+1)..Len(s) : IsSpace(s[j])
         IN SubSeq(s, first, last)

\* strings.Cut(s, sep) for a one-character sep: (before, after, found)
Cut(s, sep) ==
    LET i == Index(s, sep)
    IN IF i = 0 THEN [before |-> s, after |-> <<>>, found |-> FALSE]
       ELSE [before |-> SubSeq(s, 1, i-1), after |-> SubSeq(s, i+1, Len(s)), found |-> TRUE]

\* strings.Split(s, "\n")
RECURSIVE Split(_)
Split(s) ==
    LET i == Index(s, "\n")
    IN IF i = 0 THEN <<s>>
       ELSE <<SubSeq(s, 1, i-1)>> \o Split(SubSeq(s, i+1, Len(s)))

----------------------------------------------------------------------------
(* Maps: Go's map[string]any, and the process environment *)

MapHas(m, k) == k \in DOMAIN m

MapPut(m, k, v) == [x \in (DOMAIN m) \cup {k} |-> IF x = k THEN v ELSE m[x]]

MapDel(m, k) == [x \in (DOMAIN m) \ {k} |-> m[x]]

EmptyMap == <<>>

\* os.Setenv: fails (and the decoder ignores the failure) on an empty name or a
\* name holding "="
Setenv(env, name, value) ==
    IF name = <<>> \/ Contains(name, "=") THEN env ELSE MapPut(env, name, value)

----------------------------------------------------------------------------
(* The decoder (parser.go) *)

prefixSingleQuote == "'"
prefixDoubleQuote == "\""

ExportPrefix == <<"e","x","p","o","r","t"," ">>

ErrNone         == "nil"
ErrKeySpaces    == "key cannot contain spaces"
ErrUnterminated == "unterminated quoted value"
ErrNotExist     == "file does not exist"

\* isPrefixQuoted: (quote, ok); quote "" stands for the zero byte
isPrefixQuoted(s) ==
    IF s = <<>> THEN [quote |-> "", ok |-> FALSE]
    ELSE IF s[1] \in {prefixDoubleQuote, prefixSingleQuote}
         THEN [quote |-> s[1], ok |-> TRUE]
         ELSE [quote |-> "", ok |-> FALSE]

isQuoted(s) ==
    IF Len(s) < 2 THEN FALSE
    ELSE s[1] = s[Len(s)] /\ s[1] \in {prefixDoubleQuote, prefixSingleQuote}

\* findTerminator: the 0-based index of the first unescaped quote, or -1
RECURSIVE findTerminatorFrom(_, _, _, _)
findTerminatorFrom(str, quote, i, previousCharIsEscape) ==
    IF i > Len(str) THEN -1
    ELSE IF str[i] = quote /\ ~previousCharIsEscape THEN i - 1
    ELSE IF ~previousCharIsEscape /\ str[i] = "\\"
         THEN findTerminatorFrom(str, quote, i + 1, TRUE)
         ELSE findTerminatorFrom(str, quote, i + 1, FALSE)

findTerminator(str, quote) == findTerminatorFrom(str, quote, 1, FALSE)

\* escapeRegex `\\.` with the replacement function of parseValue: the matches are
\* taken left to right without overlap; `.` does not match a newline
RECURSIVE ReplaceEscapes(_)
ReplaceEscapes(s) ==
    IF s = <<>> THEN <<>>
    ELSE IF s[1] = "\\" /\ Len(s) >= 2 /\ s[2] # "\n"
         THEN (CASE s[2] = "n" -> <<"\n">>
                 [] s[2] = "r" -> <<"\r">>
                 [] OTHER      -> <<s[1], s[2]>>)
              \o ReplaceEscapes(SubSeq(s, 3, Len(s)))
         ELSE <<s[1]>> \o ReplaceEscapes(Tail(s))

\* the unescaping with the pattern `\\(.)`, which takes a '$' as well
RECURSIVE UnescapeChars_AnyChar(_)
UnescapeChars_AnyChar(s) ==
    IF s = <<>> THEN <<>>
    ELSE IF s[1] = "\\" /\ Len(s) >= 2
         THEN <<s[2]>> \o UnescapeChars_AnyChar(SubSeq(s, 3, Len(s)))
         ELSE <<s[1]>> \o UnescapeChars_AnyChar(Tail(s))

\* unescapeCharsRegex `\\([^$])` replaced by "$1"
RECURSIVE UnescapeChars(_)
UnescapeChars(s) ==
    IF s = <<>> THEN <<>>
    ELSE IF s[1] = "\\" /\ Len(s) >= 2 /\ s[2] # "$"
         THEN <<s[2]>> \o UnescapeChars(SubSeq(s, 3, Len(s)))
         ELSE <<s[1]>> \o UnescapeChars(Tail(s))

parseValue(value) ==
    LET v1 == TrimSpace(value)
        v2 == IF ~isQuoted(v1) /\ Index(v1, "#") > 0
              THEN SubSeq(v1, 1, Index(v1, "#") - 1)
              ELSE v1
        v3 == TrimSpace(v2)
        v4 == SubSeq(v3, 2, Len(v3) - 1)
    IN IF v1 = <<>> THEN <<>>
       ELSE IF Len(v3) > 1 /\ isPrefixQuoted(v3).ok
            THEN IF isPrefixQuoted(v3).quote = prefixDoubleQuote
                 THEN UnescapeChars(ReplaceEscapes(v4))
                 ELSE v4
            ELSE v3

\* addEnv storing the key as written, without strings.ToUpper
addEnv_KeepCase(key, value, st) ==
    IF HasPrefix(key, ExportPrefix)
    THEN [st EXCEPT !.env = Setenv(st.env, SubSeq(key, 8, Len(key)), value)]
    ELSE [st EXCEPT !.v = MapPut(st.v, key, value)]

\* addEnv storing an exported entry in the map as well, under the name after
\* the prefix
addEnv_ExportAlsoStored(key, value, st) ==
    IF HasPrefix(key, ExportPrefix)
    THEN [st EXCEPT !.env = Setenv(st.env, SubSeq(key, 8, Len(key)), value),
                    !.v = MapPut(st.v, ToUpper(SubSeq(key, 8, Len(key))), value)]
    ELSE [st EXCEPT !.v = MapPut(st.v, ToUpper(key), value)]

\* addEnv where a key already in the map keeps its first value
addEnv_FirstWins(key, value, st) ==
    IF HasPrefix(key, ExportPrefix)
    THEN [st EXCEPT !.env = Setenv(st.env, SubSeq(key, 8, Len(key)), value)]
    ELSE IF MapHas(st.v, ToUpper(key)) THEN st
    ELSE [st EXCEPT !.v = MapPut(st.v, ToUpper(key), value)]

\* addEnv on the decoder's state: an exported key goes to the environment, any
\* other key, upper-cased, to the map
addEnv(key, value, st) ==
    IF HasPrefix(key, ExportPrefix)
    THEN [st EXCEPT !.env = Setenv(st.env, SubSeq(key, 8, Len(key)), value)]
    ELSE [st EXCEPT !.v = MapPut(st.v, ToUpper(key), value)]

\* One iteration of Decode's loop over the lines.  st holds d.line, the locals
\* curKey, curVal, curQuote, the map v, the environment, and the error returned.
DecodeLine(st, rawLine) ==
    LET s1 == [st EXCEPT !.line = st.line + 1]
    IN IF st.curQuote = ""
       THEN LET ln     == TrimSpace(rawLine)
                byEq   == Cut(ln, "=")
                cut    == IF byEq.found THEN byEq ELSE Cut(ln, ":")
                key    == TrimSpace(cut.before)
                val    == TrimSpace(cut.after)
                q      == isPrefixQuoted(val)
            IN IF ln = <<>> \/ ln[1] = "#" THEN s1
               ELSE IF ~HasPrefix(key, ExportPrefix) /\ Contains(key, " ")
                    THEN [s1 EXCEPT !.err = ErrKeySpaces, !.errLine = s1.line]
               ELSE IF q.ok /\ findTerminator(Tail(val), q.quote) = -1
                    THEN [s1 EXCEPT !.curKey = key, !.curVal = val, !.curQuote = q.quote]
               ELSE addEnv(key, parseValue(val), s1)
       ELSE LET curVal == st.curVal \o <<"\n">> \o rawLine
            IN IF findTerminator(rawLine, st.curQuote) = -1
               THEN [s1 EXCEPT !.curVal = curVal]
               ELSE [addEnv(st.curKey, parseValue(curVal), s1)
                        EXCEPT !.curKey = <<>>, !.curVal = <<>>, !.curQuote = ""]

RECURSIVE DecodeLoop(_, _, _)
DecodeLoop(lines, i, st) ==
    IF i > Len(lines) \/ st.err # ErrNone THEN st
    ELSE DecodeLoop(lines, i + 1, DecodeLine(st, lines[i]))

\* DefaultDecoder.Decode(b, v) with the decoder's line field at line0 and the
\* process environment env: the map as filled (also when an error is returned),
\* the error and the line it names, the line field and the environment afterwards
DecodeStart(v, line0, env) ==
    [line |-> line0, curKey |-> <<>>, curVal |-> <<>>, curQuote |-> "",
     v |-> v, env |-> env, err |-> ErrNone, errLine |-> 0]

\* after the last line: a quoted block still open is an error
DecodeEnd(st) ==
    IF st.err = ErrNone /\ st.curQuote # ""
    THEN [st EXCEPT !.err = ErrUnterminated, !.errLine = st.line]
    ELSE st

Decode(b, v, line0, env) ==
    DecodeEnd(DecodeLoop(Split(b), 1, DecodeStart(v, line0, env)))

----------------------------------------------------------------------------
(* Bounds and inputs *)

\* Load is not taken once the decoder's line field would pass this
MaxLine == 7

utf8BOM == <<"BOM">>

DefaultConfigFile == ".env"

\* The files on disk.  ".env" starts with a byte-order mark, has a lower-case
\* key, an inline comment and an exported entry; "multi.env" holds a quoted
\* value over two lines; "invalid.env" has a key with a space on its line 3,
\* after a valid entry and a comment.  "missing.env" does not exist.
Files ==
    [x \in {".env", "multi.env", "invalid.env"} |->
        CASE x = ".env" ->
               <<"BOM","a","=","1","\n"," ","B"," ","="," ","2"," ","#","c","\n",
                 "e","x","p","o","r","t"," ","P","_","A","=","3">>
          [] x = "multi.env" ->
               <<"q","=","\"","x","\n","y","\"","\n","a",":","5">>
          [] x = "invalid.env" ->
               <<"A","=","3","\n","#","\n","b"," ","c","=","1","\n","Z","=","1">>]

Paths == (DOMAIN Files) \cup {"missing.env"}

Prefixes == {<<"p">>}

SetKeys == {<<"a">>, <<"P">>}

LookUpKeys == {<<>>, <<"a">>, <<"A">>, <<"p">>, <<"P">>, <<"p","_","a">>}

Values == {<<"v">>, <<"w">>}

EnvNames == {<<"P","_","A">>}

EnvValues == {<<>>, <<"x">>}

----------------------------------------------------------------------------
(* The registry (dotenv.go) *)

\* a value of type any: nil, or a string
Nil == [nil |-> TRUE, s |-> <<>>]
Str(s) == [nil |-> FALSE, s |-> s]

NilCache == [nil |-> TRUE, m |-> EmptyMap]

NoCall == [op |-> "New", key |-> <<>>, value |-> <<>>, outcome |-> "return",
           val |-> Nil, found |-> FALSE, err |-> ErrNone, errLine |-> 0,
           pre |-> NilCache]

Call(op, key, value) == [NoCall EXCEPT !.op = op, !.key = key, !.value = value,
                                       !.pre = cachedConfig]

\* New(): no cache, the default file, no prefix, a fresh decoder
Init ==
    /\ cachedConfig = NilCache
    /\ prefix = <<>>
    /\ allowEmptyEnvVars = FALSE
    /\ configFile = DefaultConfigFile
    /\ mu = "free"
    /\ d_line = 0
    /\ environ = EmptyMap
    /\ ret = NoCall

SetPrefix(p) ==
    /\ prefix' = ToUpper(p) \o <<"_">>
    /\ ret' = Call("SetPrefix", p, <<>>)
    /\ UNCHANGED <<cachedConfig, allowEmptyEnvVars, configFile, mu, d_line, environ>>

addPrefix(key) ==
    IF prefix # <<>> /\ ~HasPrefix(prefix, key) THEN prefix \o key ELSE key

AllowEmptyEnvVars(b) ==
    /\ allowEmptyEnvVars' = b
    /\ ret' = [Call("AllowEmptyEnvVars", <<>>, <<>>) EXCEPT !.found = b]
    /\ UNCHANGED <<cachedConfig, prefix, configFile, mu, d_line, environ>>

SetConfigFile(f) ==
    /\ configFile' = f
    /\ ret' = Call("SetConfigFile", <<>>, <<>>)
    /\ UNCHANGED <<cachedConfig, prefix, allowEmptyEnvVars, mu, d_line, environ>>

\* os.ReadFile(e.configFile)
ReadFile(f) == IF f \in DOMAIN Files THEN [data |-> Files[f], err |-> ErrNone]
               ELSE [data |-> <<>>, err |-> ErrNotExist]

\* Load assigning the map before it looks at Decode's error
LoadCache_BeforeErrCheck(dec) == [nil |-> FALSE, m |-> dec.v]

\* Load adding the decoded entries to the entries the cache holds
LoadCache_Merge(dec) ==
    IF dec.err = ErrNone
    THEN [nil |-> FALSE,
          m |-> [x \in (DOMAIN cachedConfig.m) \cup (DOMAIN dec.v) |->
                    IF x \in DOMAIN dec.v THEN dec.v[x] ELSE cachedConfig.m[x]]]
    ELSE cachedConfig

\* The cache Load leaves, given what Decode returned: the new map is assigned
\* only after Decode returned no error
LoadCache(dec) ==
    IF dec.err = ErrNone THEN [nil |-> FALSE, m |-> dec.v] ELSE cachedConfig

Load ==
    LET file == ReadFile(configFile)
        data == TrimPrefix(file.data, utf8BOM)
        dec  == Decode(data, EmptyMap, d_line, environ)
        call == Call("Load", <<>>, <<>>)
    IN IF file.err # ErrNone
       THEN /\ ret' = [call EXCEPT !.err = file.err]
            /\ UNCHANGED <<cachedConfig, prefix, allowEmptyEnvVars, configFile, mu,
                           d_line, environ>>
       ELSE /\ d_line + Len(Split(data)) <= MaxLine
            /\ d_line' = dec.line
            /\ environ' = dec.env
            /\ IF dec.err # ErrNone
               THEN /\ ret' = [call EXCEPT !.err = dec.err, !.errLine = dec.errLine]
                    /\ cachedConfig' = LoadCache(dec)
               ELSE IF mu = "held"
               THEN /\ ret' = [call EXCEPT !.outcome = "blocked"]
                    /\ UNCHANGED cachedConfig
               ELSE /\ ret' = call
                    /\ cachedConfig' = LoadCache(dec)
            /\ UNCHANGED <<prefix, allowEmptyEnvVars, configFile, mu>>

\* LookUp(key): the environment first, then the cache under the lock
LookUpResult(key) ==
    LET k == ToUpper(addPrefix(key))
    IN IF key = <<>>
       THEN [outcome |-> "return", val |-> Nil, found |-> FALSE]
       ELSE IF MapHas(environ, k) /\ environ[k] # <<>> /\ ~allowEmptyEnvVars
       THEN [outcome |-> "return", val |-> Str(environ[k]), found |-> TRUE]
       ELSE IF mu = "held"
       THEN [outcome |-> "blocked", val |-> Nil, found |-> FALSE]
       ELSE IF MapHas(cachedConfig.m, k)
       THEN [outcome |-> "return", val |-> Str(cachedConfig.m[k]), found |-> TRUE]
       ELSE [outcome |-> "return", val |-> Nil, found |-> FALSE]

LookUp(key) ==
    LET r == LookUpResult(key)
    IN /\ ret' = [Call("LookUp", key, <<>>) EXCEPT !.outcome = r.outcome,
                                                   !.val = r.val, !.found = r.found]
       /\ UNCHANGED <<cachedConfig, prefix, allowEmptyEnvVars, configFile, mu,
                      d_line, environ>>

\* Get(key): LookUp's value alone
Get(key) == LookUpResult(key).val

\* IsSet(key): LookUp's boolean alone
IsSet(key) == LookUpResult(key).found

\* The key Set stores under
SetKey(key) == ToUpper(addPrefix(key))

\* Set(key, value): a write to a nil map panics, after the lock was taken and
\* before it is released
Set(key, value) ==
    LET call == Call("Set", key, value)
    IN IF mu = "held"
       THEN /\ ret' = [call EXCEPT !.outcome = "blocked"]
            /\ UNCHANGED <<cachedConfig, prefix, allowEmptyEnvVars, configFile, mu,
                           d_line, environ>>
       ELSE IF cachedConfig.nil
       THEN /\ ret' = [call EXCEPT !.outcome = "panic"]
            /\ mu' = "held"
            /\ UNCHANGED <<cachedConfig, prefix, allowEmptyEnvVars, configFile,
                           d_line, environ>>
       ELSE /\ ret' = call
            /\ cachedConfig' = [cachedConfig EXCEPT !.m = MapPut(@, SetKey(key), value)]
            /\ UNCHANGED <<prefix, allowEmptyEnvVars, configFile, mu, d_line, environ>>

\* The program around the registry sets and unsets environment variables
OsSetenv(name, value) ==
    /\ environ' = Setenv(environ, name, value)
    /\ ret' = Call("Setenv", name, value)
    /\ UNCHANGED <<cachedConfig, prefix, allowEmptyEnvVars, configFile, mu, d_line>>

OsUnsetenv(name) ==
    /\ environ' = MapDel(environ, name)
    /\ ret' = Call("Unsetenv", name, <<>>)
    /\ UNCHANGED <<cachedConfig, prefix, allowEmptyEnvVars, configFile, mu, d_line>>

Next ==
    \/ \E p \in Prefixes : SetPrefix(p)
    \/ \E b \in BOOLEAN : AllowEmptyEnvVars(b)
    \/ \E f \in Paths : SetConfigFile(f)
    \/ Load
    \/ \E k \in LookUpKeys : LookUp(k)
    \/ \E k \in SetKeys, v \in Values : Set(k, v)
    \/ \E n \in EnvNames, v \in EnvValues : OsSetenv(n, v)
    \/ \E n \in EnvNames : OsUnsetenv(n)

Spec == Init /\ [][Next]_vars

----------------------------------------------------------------------------
(* The claims *)

K_A   == <<"A">>
K_B   == <<"B">>
K_P   == <<"P">>
K_Q   == <<"Q">>
K_P_A == <<"P","_","A">>

EnvSet(k)      == MapHas(environ, k)
EnvNonEmpty(k) == MapHas(environ, k) /\ environ[k] # <<>>

\* The effective key as the specification words it: upper(prefix + key), unless
\* the key already carries the prefix
SpecEffectiveKey(key) ==
    IF prefix # <<>> /\ ~HasPrefix(ToUpper(key), prefix)
    THEN ToUpper(prefix \o key)
    ELSE ToUpper(key)

\* C1: whatever the cache, the prefix and allowEmptyEnvVars, a LookUp of a
\* non-empty key whose environment variable is set to a non-empty x returns
\* (x, true), and Get returns x.
C1_EnvNonEmptyWins ==
    (ret.op = "LookUp" /\ ret.key # <<>> /\ EnvNonEmpty(SetKey(ret.key)))
        => /\ ret.outcome = "return"
           /\ ret.val = Str(environ[SetKey(ret.key)])
           /\ ret.found
           /\ Get(ret.key) = Str(environ[SetKey(ret.key)])

\* C2: with allowEmptyEnvVars = true, an environment variable set to the empty
\* string counts as set: LookUp returns ("", true) and IsSet is true, whatever
\* the cache holds.
C2_EmptyEnvCountsAsSet ==
    (ret.op = "LookUp" /\ ret.key # <<>> /\ allowEmptyEnvVars
        /\ EnvSet(SetKey(ret.key)) /\ environ[SetKey(ret.key)] = <<>>)
        => /\ ret.outcome = "return"
           /\ ret.val = Str(<<>>)
           /\ ret.found
           /\ IsSet(ret.key)

\* What C3 expects of a LookUp that falls through to the cache
CacheAnswer(r) ==
    IF MapHas(cachedConfig.m, SetKey(r.key))
    THEN r.val = Str(cachedConfig.m[SetKey(r.key)]) /\ r.found
    ELSE r.val = Nil /\ ~r.found

\* C3: with allowEmptyEnvVars = false and the environment variable absent or
\* empty, LookUp returns the cache entry of the effective key with found = true
\* when there is one and (nil, false) otherwise, also on a registry never loaded
\* and for the empty key; it neither panics nor fails to return.
C3_FallsThroughToCache ==
    (ret.op = "LookUp" /\ ~allowEmptyEnvVars /\ ~EnvNonEmpty(SetKey(ret.key)))
        => /\ ret.outcome = "return"
           /\ CacheAnswer(ret)

\* The part of C3 that LookUp itself decides: a LookUp that returns, returns
\* what C3 says, and no LookUp panics.
LookUpReturnsCacheAnswer ==
    (ret.op = "LookUp" /\ ~allowEmptyEnvVars /\ ~EnvNonEmpty(SetKey(ret.key)))
        => /\ ret.outcome # "panic"
           /\ ret.outcome = "return" => CacheAnswer(ret)

\* C4: Set on a registry whose cache is nil returns normally, leaves a cache
\* that holds the entry, and a following Get of the key returns the value.
C4_SetInitialisesCache ==
    (ret.op = "Set" /\ ret.pre.nil)
        => /\ ret.outcome = "return"
           /\ ~cachedConfig.nil
           /\ MapHas(cachedConfig.m, SetKey(ret.key))
           /\ ~EnvSet(SetKey(ret.key)) => Get(ret.key) = Str(ret.value)

\* C5: a LookUp that follows a Set(k, v) on an initialised cache, for k in any
\* letter case and with no environment variable for the effective key, returns
\* (v, true), under every prefix.
C5_SetThenGet ==
    [][(/\ ret.op = "Set" /\ ret.outcome = "return" /\ ~ret.pre.nil
        /\ ret'.op = "LookUp"
        /\ ToUpper(ret'.key) = ToUpper(ret.key)
        /\ ~EnvSet(SetKey(ret.key)) /\ ~EnvSet(SetKey(ret'.key)))
           => (ret'.outcome = "return" /\ ret'.val = Str(ret.value) /\ ret'.found)]_vars

\* C6: with a prefix set, the key a LookUp or a Set of a non-empty key works on
\* is upper(prefix + key), and upper(key) for a key that already carries the
\* prefix.
C6_EffectiveKey ==
    (ret.op \in {"LookUp", "Set"} /\ ret.key # <<>> /\ prefix # <<>>)
        => SetKey(ret.key) = SpecEffectiveKey(ret.key)

\* C7: after a Load that returned an error (no file, or a document the decoder
\* rejects) the cache is what it was before the call.
C7_FailedLoadKeepsCache ==
    (ret.op = "Load" /\ ret.err # ErrNone) => cachedConfig = ret.pre

\* C7 witness: a Load failed on the key with a space, on a cache loaded before,
\* whose entry for A is not the one the failing document assigns before its
\* bad line.
C7_Witness ==
    /\ ret.op = "Load" /\ ret.err = ErrKeySpaces
    /\ ~cachedConfig.nil /\ MapHas(cachedConfig.m, K_A)
    /\ cachedConfig.m[K_A] # <<"3">>

\* The mapping the decoder produces from the configured file
DecodedFile ==
    Decode(TrimPrefix(Files[configFile], utf8BOM), EmptyMap, 0, EmptyMap).v

\* C8: after a successful Load the cache is exactly the mapping decoded from the
\* file; no earlier entry whose key the file lacks is left.
C8_LoadReplacesCache ==
    (ret.op = "Load" /\ ret.err = ErrNone /\ ret.outcome = "return")
        => /\ ~cachedConfig.nil
           /\ cachedConfig.m = DecodedFile
           /\ \A k \in DOMAIN ret.pre.m :
                  k \notin DOMAIN DecodedFile => ~MapHas(cachedConfig.m, k)

\* C8 witness: a Load succeeded on a cache that held P, added by Set, and B,
\* from an earlier Load, and neither is in the cache now.
C8_Witness ==
    /\ ret.op = "Load" /\ ret.err = ErrNone /\ ret.outcome = "return"
    /\ MapHas(ret.pre.m, K_P) /\ MapHas(ret.pre.m, K_B)
    /\ ~MapHas(cachedConfig.m, K_P) /\ ~MapHas(cachedConfig.m, K_B)

\* C9: every key of the cache equals its upper-cased form.
C9_CacheKeysUpper ==
    \A k \in DOMAIN cachedConfig.m : k = ToUpper(k)

\* C9 witness: the cache holds Q, written q in the file, and P_A, stored by
\* Set("a") under the prefix.
C9_Witness ==
    /\ ~cachedConfig.nil
    /\ MapHas(cachedConfig.m, K_Q)
    /\ MapHas(cachedConfig.m, K_P_A)
    /\ prefix # <<>>

\* Whether a line of a document, read outside a quoted block, holds a key with
\* a space that is not an exported key
IsBadKeyLine(rawLine) ==
    LET ln   == TrimSpace(rawLine)
        byEq == Cut(ln, "=")
        key  == TrimSpace(IF byEq.found THEN byEq.before ELSE Cut(ln, ":").before)
    IN ln # <<>> /\ ln[1] # "#" /\ Contains(key, " ") /\ ~HasPrefix(key, ExportPrefix)

\* The 1-based number of the first such line of a document
FirstBadKeyLine(doc) ==
    LET lines == Split(doc)
    IN CHOOSE n \in 1..Len(lines) :
           IsBadKeyLine(lines[n]) /\ \A j \in 1..(n-1) : ~IsBadKeyLine(lines[j])

\* C10: a Load that fails on a key with a space names the line of that key in
\* the document, on the first Load of a registry and on every later one.
C10_ErrorNamesLine ==
    (ret.op = "Load" /\ ret.err = ErrKeySpaces)
        => ret.errLine = FirstBadKeyLine(Files[configFile])

----------------------------------------------------------------------------
(* The decoder on its own: one document is decoded line by line by a fresh  *)
(* decoder, and the mapping it produced is saved and decoded again          *)

\* a document has at most this many lines
MaxDocLines == 3

\* a quoted body has at most this many characters
MaxBody == 3

L_a1         == <<"a","=","1">>
L_A2         == <<"A","=","2">>
L_export     == <<"e","x","p","o","r","t"," ","k","=","v"," ">>
L_open       == <<"Q","=","\"","x">>
L_close      == <<" ","y","\"">>
L_closeC     == <<"z","\""," ","#","c">>
L_comment    == <<"#","c">>
L_blank      == <<>>
L_word       == <<"w">>
L_twoWords   == <<"t"," ","w">>
L_quotedHash == <<"S","=","'","a","#","b","'"," ","#","c">>

\* The lines documents are made of: entries whose keys differ only in case, an
\* exported entry, the opening and two closing lines of a double-quoted block,
\* a comment, a blank line, two lines without separator, and a quoted value
\* holding a '#' that is followed by a comment
LineSet == {L_a1, L_A2, L_export, L_open, L_close, L_closeC, L_comment,
            L_blank, L_word, L_twoWords, L_quotedHash}

RECURSIVE Join(_)
Join(lines) ==
    IF Len(lines) = 0 THEN <<>>
    ELSE IF Len(lines) = 1 THEN lines[1]
    ELSE lines[1] \o <<"\n">> \o Join(Tail(lines))

LineDocs == { Join(ls) : ls \in UNION { [1..n -> LineSet] : n \in 1..MaxDocLines } }

EscAlphabet == {"\\", "n", "r", "\"", "'", "$", "a"}

Bodies == UNION { [1..n -> EscAlphabet] : n \in 0..MaxBody }

\* Whether body can stand between two quote characters: every backslash is
\* followed by a character it escapes, and no quote is left unescaped
RECURSIVE BodyOK(_, _)
BodyOK(body, quote) ==
    IF body = <<>> THEN TRUE
    ELSE IF body[1] = "\\" THEN Len(body) >= 2 /\ BodyOK(Tail(Tail(body)), quote)
    ELSE body[1] # quote /\ BodyOK(Tail(body), quote)

QuotedLine(body, quote) == <<"V","=">> \o <<quote>> \o body \o <<quote>>

QuotedDocs(quote) == { QuotedLine(b, quote) : b \in { x \in Bodies : BodyOK(x, quote) } }

Docs == LineDocs \cup QuotedDocs(prefixDoubleQuote) \cup QuotedDocs(prefixSingleQuote)

\* cast.ToString of a value the decoder stored: the string itself
castToString(value) == value

\* The text Save builds from a mapping, visiting its keys in the given order
\* (the order of a range over a Go map is not fixed)
RECURSIVE SaveData(_, _)
SaveData(m, order) ==
    IF order = <<>> THEN <<>>
    ELSE order[1] \o <<"=">> \o castToString(m[order[1]]) \o <<"\n">>
             \o SaveData(m, Tail(order))

\* the orders in which a range can visit the keys
Orders(keys) ==
    { f \in [1..Cardinality(keys) -> keys] :
          \A i, j \in 1..Cardinality(keys) : f[i] = f[j] => i = j }

\* Decode(doc, v) is entered: v is empty, no line is read yet
DecodeCall(doc) ==
    LET st0 == DecodeStart(EmptyMap, 0, EmptyMap)
    IN [op |-> "Decode", pc |-> "loop", doc |-> doc, lines |-> Split(doc), i |-> 1,
        prev |-> st0, st |-> st0, saved |-> <<>>, again |-> st0]

InitDecode ==
    /\ cachedConfig = NilCache
    /\ prefix = <<>>
    /\ allowEmptyEnvVars = FALSE
    /\ configFile = DefaultConfigFile
    /\ mu = "free"
    /\ d_line = 0
    /\ environ = EmptyMap
    /\ \E doc \in Docs : ret = DecodeCall(doc)

\* one turn of the loop over the lines; an error ends the call
DecodeStep ==
    /\ ret.pc = "loop"
    /\ ret.i <= Len(ret.lines)
    /\ LET st == DecodeLine(ret.st, ret.lines[ret.i])
       IN /\ ret' = [ret EXCEPT !.prev = ret.st, !.st = st, !.i = ret.i + 1,
                                !.pc = IF st.err # ErrNone THEN "done" ELSE "loop"]
          /\ d_line' = st.line
          /\ environ' = st.env
    /\ UNCHANGED <<cachedConfig, prefix, allowEmptyEnvVars, configFile, mu>>

\* the lines are used up: Decode returns
DecodeReturn ==
    /\ ret.pc = "loop"
    /\ ret.i > Len(ret.lines)
    /\ ret' = [ret EXCEPT !.prev = ret.st, !.st = DecodeEnd(ret.st), !.pc = "done"]
    /\ UNCHANGED <<cachedConfig, prefix, allowEmptyEnvVars, configFile, mu, d_line, environ>>

\* Save of the mapping a successful Decode produced
SaveDecoded ==
    /\ ret.pc = "done"
    /\ ret.st.err = ErrNone
    /\ \E order \in Orders(DOMAIN ret.st.v) :
           ret' = [ret EXCEPT !.pc = "saved", !.saved = SaveData(ret.st.v, order)]
    /\ UNCHANGED <<cachedConfig, prefix, allowEmptyEnvVars, configFile, mu, d_line, environ>>

\* the saved text is decoded into an empty mapping
DecodeSaved ==
    /\ ret.pc = "saved"
    /\ LET dec == Decode(ret.saved, EmptyMap, d_line, environ)
       IN /\ ret' = [ret EXCEPT !.pc = "again", !.again = dec]
          /\ d_line' = dec.line
          /\ environ' = dec.env
    /\ UNCHANGED <<cachedConfig, prefix, allowEmptyEnvVars, configFile, mu>>

NextDecode ==
    \/ DecodeStep
    \/ DecodeReturn
    \/ SaveDecoded
    \/ DecodeSaved

SpecDecode == InitDecode /\ [][NextDecode]_vars

----------------------------------------------------------------------------
(* The claims about the decoder *)

\* the Decode call has returned
Returned == ret.op = "Decode" /\ ret.pc = "done"

\* the decoder's state after the first j lines of a document
StateAfter(lines, j) ==
    DecodeLoop(SubSeq(lines, 1, j), 1, DecodeStart(EmptyMap, 0, EmptyMap))

\* The 1-based number of the line on which the quoted block was opened that
\* is still open at the end of the document
OpenedOn(lines) ==
    CHOOSE j \in 1..Len(lines) :
        /\ StateAfter(lines, j - 1).curQuote = ""
        /\ \A n \in j..Len(lines) : StateAfter(lines, n).curQuote # ""

\* C11: when the document ends inside a quoted block, Decode fails with the
\* "unterminated quoted value" error and the error names the line on which
\* the quote was opened.
C11_UnterminatedNamesOpeningLine ==
    (Returned /\ ret.prev.err = ErrNone /\ ret.prev.curQuote # "")
        => /\ ret.st.err = ErrUnterminated
           /\ ret.st.errLine = OpenedOn(ret.lines)

\* the line with number j is read by the decoder, outside a quoted block
ReadOutsideBlock(lines, j) ==
    /\ StateAfter(lines, j - 1).err = ErrNone
    /\ StateAfter(lines, j - 1).curQuote = ""

\* the turn of the loop just taken read the given line outside a quoted block
JustRead(line) ==
    /\ ret.op = "Decode" /\ ret.pc = "loop" /\ ret.i > 1
    /\ ret.lines[ret.i - 1] = line
    /\ ret.prev.curQuote = ""

\* the names an entry for "export k" could be stored under
ExportNames == {<<"k">>, <<"K">>,
                <<"e","x","p","o","r","t"," ","k">>, <<"E","X","P","O","R","T"," ","K">>}

\* C12: the line "export k=v " adds no entry to the mapping; it sets the
\* environment variable k (the key without its 7-character prefix) to v, and
\* the variable is still so set, and the mapping still without the entry,
\* when Decode returns.
C12_ExportSetsEnvOnly ==
    /\ JustRead(L_export)
          => /\ ret.st.v = ret.prev.v
             /\ MapHas(environ, <<"k">>) /\ environ[<<"k">>] = <<"v">>
    /\ (Returned /\ \E j \in 1..Len(ret.lines) :
                        ret.lines[j] = L_export /\ ReadOutsideBlock(ret.lines, j))
          => /\ MapHas(environ, <<"k">>) /\ environ[<<"k">>] = <<"v">>
             /\ \A n \in ExportNames : ~MapHas(ret.st.v, n)

\* C12 witness: Decode has returned from a document whose exported line came
\* after an ordinary entry, which is in the mapping.
C12_Witness ==
    /\ Returned /\ ret.st.err = ErrNone
    /\ Len(ret.lines) >= 2 /\ ret.lines[1] = L_a1 /\ ret.lines[2] = L_export
    /\ MapHas(ret.st.v, <<"A">>)
    /\ MapHas(environ, <<"k">>)

\* C13: after a successful Load of the file ".env", which holds the line
\* "export P_A=3", Get("P_A") returns "3".
C13_ExportedResolved ==
    (ret.op = "Load" /\ ret.outcome = "return" /\ ret.err = ErrNone
        /\ configFile = DefaultConfigFile)
        => Get(K_P_A) = Str(<<"3">>)

RECURSIVE Newlines(_)
Newlines(s) ==
    IF s = <<>> THEN 0
    ELSE (IF s[1] = "\n" THEN 1 ELSE 0) + Newlines(Tail(s))

\* the turn of the loop just taken read a line inside a quoted block
JustReadInBlock ==
    /\ ret.op = "Decode" /\ ret.pc = "loop" /\ ret.i > 1
    /\ ret.prev.curQuote # ""

\* The number of the line that opened the block the line with number n is in
BlockOpenedOn(lines, n) ==
    CHOOSE j \in 1..(n - 1) :
        /\ StateAfter(lines, j - 1).curQuote = ""
        /\ \A m \in j..(n - 1) : StateAfter(lines, m).curQuote # ""

\* C14: the line Q="x, read outside a block, opens a quoted block and adds no
\* entry; a line read inside the block is appended raw after a newline; the
\* line that holds the closing quote ends the block, which then has added
\* exactly the entry Q, and the value of a block of k lines has k-1 newlines;
\* a line a=1 read after the block is an ordinary entry.
C14_QuotedBlock ==
    /\ JustRead(L_open)
          => /\ ret.st.curQuote = prefixDoubleQuote
             /\ ret.st.v = ret.prev.v
    /\ (JustReadInBlock /\ ret.st.curQuote # "")
          => /\ ret.st.curVal = ret.prev.curVal \o <<"\n">> \o ret.lines[ret.i - 1]
             /\ ret.st.v = ret.prev.v
    /\ (JustReadInBlock /\ ret.st.curQuote = "")
          => /\ DOMAIN ret.st.v = (DOMAIN ret.prev.v) \cup {K_Q}
             /\ \A key \in (DOMAIN ret.prev.v) \ {K_Q} : ret.st.v[key] = ret.prev.v[key]
             /\ Newlines(ret.st.v[K_Q])
                    = (ret.i - 1) - BlockOpenedOn(ret.lines, ret.i - 1)
    /\ JustRead(L_a1)
          => MapHas(ret.st.v, K_A) /\ ret.st.v[K_A] = <<"1">>

\* C15: the line S='a#b' #c, a quoted value holding a '#' and followed by a
\* comment, gives S the body between the quotes, a#b.
C15_HashInQuotesLiteral ==
    JustRead(L_quotedHash)
        => MapHas(ret.st.v, <<"S">>) /\ ret.st.v[<<"S">>] = <<"a","#","b">>

K_V == <<"V">>

\* the turn of the loop just taken read the line V=<quote>body<quote>
JustReadQuoted(quote) ==
    /\ ret.op = "Decode" /\ ret.pc = "loop" /\ ret.i = 2
    /\ ret.lines[1] \in QuotedDocs(quote)

\* the body between the quotes of such a line
BodyOf(line) == SubSeq(line, 4, Len(line) - 1)

\* What the escapes of a double-quoted body stand for: a newline for \n, a
\* carriage return for \r, and c for a backslash before any other character c
RECURSIVE Unescaped(_)
Unescaped(body) ==
    IF body = <<>> THEN <<>>
    ELSE IF body[1] = "\\"
         THEN (CASE body[2] = "n" -> <<"\n">>
                 [] body[2] = "r" -> <<"\r">>
                 [] OTHER         -> <<body[2]>>)
              \o Unescaped(SubSeq(body, 3, Len(body)))
         ELSE <<body[1]>> \o Unescaped(Tail(body))

\* the same, with a backslash before '$' kept together with the '$'
RECURSIVE UnescapedButDollar(_)
UnescapedButDollar(body) ==
    IF body = <<>> THEN <<>>
    ELSE IF body[1] = "\\"
         THEN (CASE body[2] = "n" -> <<"\n">>
                 [] body[2] = "r" -> <<"\r">>
                 [] body[2] = "$" -> <<"\\", "$">>
                 [] OTHER         -> <<body[2]>>)
              \o UnescapedButDollar(SubSeq(body, 3, Len(body)))
         ELSE <<body[1]>> \o UnescapedButDollar(Tail(body))

RECURSIVE SingleQuotedMeaning(_)
SingleQuotedMeaning(body) ==
    IF body = <<>> THEN <<>>
    ELSE IF body[1] = "\\"
         THEN (IF body[2] = prefixSingleQuote THEN <<body[2]>> ELSE <<body[1], body[2]>>)
              \o SingleQuotedMeaning(SubSeq(body, 3, Len(body)))
         ELSE <<body[1]>> \o SingleQuotedMeaning(Tail(body))

\* C17: a single-quoted value loses its quotes and is taken as written, no
\* escape replaced, but for an escaped single quote, which does not end the
\* value and is decoded to a single quote.
C17_SingleQuotedLiteral ==
    JustReadQuoted(prefixSingleQuote)
        => /\ MapHas(ret.st.v, K_V)
           /\ ret.st.v[K_V] = SingleQuotedMeaning(BodyOf(ret.lines[1]))

\* C18: a line with neither '=' nor ':' (w, or t w), read outside a quoted
\* block, adds no entry to the mapping and raises no error.
C18_NoSeparatorSkipped ==
    (/\ ret.op = "Decode" /\ ret.pc \in {"loop", "done"} /\ ret.i > 1
     /\ ret.lines[ret.i - 1] \in {L_word, L_twoWords}
     /\ ret.prev.curQuote = "")
        => /\ ret.st.v = ret.prev.v
           /\ ret.st.err = ErrNone

\* the numbers of the lines of a document that assign the key A (written a or
\* A) and are read outside a quoted block
AssignsA(lines) ==
    { j \in 1..Len(lines) : lines[j] \in {L_a1, L_A2} /\ ReadOutsideBlock(lines, j) }

\* the last of a non-empty set of line numbers
Last(ns) == CHOOSE n \in ns : \A m \in ns : m <= n

\* C19: when Decode has returned without error from a document that assigns
\* the key A on one or more lines, written a=1 or A=2, the mapping holds under
\* A the value of the last of these lines, and it has no entry under a.
C19_LastAssignmentWins ==
    (Returned /\ ret.st.err = ErrNone /\ AssignsA(ret.lines) # {})
        => /\ MapHas(ret.st.v, K_A)
           /\ ret.st.v[K_A] = (IF ret.lines[Last(AssignsA(ret.lines))] = L_a1
                               THEN <<"1">> ELSE <<"2">>)
           /\ ~MapHas(ret.st.v, <<"a">>)

\* C19 witness: Decode has returned from the document A=2 / a=1 and the
\* mapping holds 1 under A.
C19_Witness ==
    /\ Returned /\ ret.st.err = ErrNone
    /\ ret.lines = <<L_A2, L_a1>>
    /\ ret.st.v[K_A] = <<"1">>

\* C20: when the mapping a Decode without error produced has been saved and
\* the saved text decoded again, the second Decode has no error and its
\* mapping is the first one: the same keys with the same values.
C20_SaveDecodeRoundTrip ==
    (ret.op = "Decode" /\ ret.pc = "again")
        => /\ ret.again.err = ErrNone
           /\ ret.again.v = ret.st.v

----------------------------------------------------------------------------
(* Goroutines on one registry: each runs one call of Set, LookUp or Load,   *)
(* statement by statement                                                   *)

Goroutines == {"g1", "g2", "g3"}

GoSet(k, v) == [fn |-> "Set", key |-> k, value |-> v]
GoLookUp(k) == [fn |-> "LookUp", key |-> k, value |-> <<>>]
GoLoad      == [fn |-> "Load", key |-> <<>>, value |-> <<>>]

\* the calls a goroutine may run
Programs == {GoSet(<<"a">>, <<"v">>), GoSet(<<"b">>, <<"w">>),
             GoLookUp(<<"a">>), GoLookUp(<<"b">>), GoLoad}

\* The goroutines' calls: no two Sets on one key, and at most one Load (two
\* Loads would share the decoder of the registry)
Scenarios ==
    { s \in [Goroutines -> Programs] :
        \A g, h \in Goroutines :
            (g # h /\ s[g].fn \in {"Set", "Load"}) => s[g] # s[h] }

\* The statements of a call that touch the lock or the cache, in their order:
\* Lock, the access to the map, Unlock
NextPc_SetWithoutLock(fn, pc) ==
    CASE pc = "start" -> IF fn = "Set" THEN "write" ELSE "lock"
      [] pc = "lock"  -> IF fn = "LookUp" THEN "read" ELSE "publish"
      [] pc \in {"read", "publish"} -> "unlock"
      [] OTHER -> "done"

NextPc(fn, pc) ==
    CASE pc = "start" -> "lock"
      [] pc = "lock"  -> (CASE fn = "Set" -> "write"
                            [] fn = "LookUp" -> "read"
                            [] OTHER -> "publish")
      [] pc \in {"write", "read", "publish"} -> "unlock"
      [] OTHER -> "done"

\* Load's Decode filling the shared map entry by entry: after the first entry
\* the cache holds that entry alone
DuringDecode_SharedMap(cache, config) ==
    IF DOMAIN config = {} THEN cache
    ELSE [nil |-> FALSE,
          m |-> [k \in {CHOOSE x \in DOMAIN config : TRUE} |-> config[k]]]

\* The cache while Load decodes: Decode fills a map of Load's own, the cache
\* is not touched
DuringDecode(cache, config) == cache

NoLocal == [pc |-> "start", key |-> <<>>, val |-> Nil, found |-> FALSE,
            err |-> ErrNone, config |-> EmptyMap, saw |-> NilCache,
            late |-> FALSE, path |-> ""]

\* the registry after New() and Load() of the default file
LoadedOnce == Decode(TrimPrefix(Files[DefaultConfigFile], utf8BOM), EmptyMap, 0, EmptyMap)

GoState(scenario, cache) ==
    [op |-> "Go", prog |-> scenario, g |-> [x \in Goroutines |-> NoLocal],
     owner |-> "none", init |-> cache, unsync |-> FALSE]

\* the registry is new, or loaded once; the goroutines are about to start
InitConc ==
    /\ prefix = <<>>
    /\ allowEmptyEnvVars = FALSE
    /\ configFile = DefaultConfigFile
    /\ mu = "free"
    /\ \/ cachedConfig = NilCache /\ d_line = 0 /\ environ = EmptyMap
       \/ /\ cachedConfig = [nil |-> FALSE, m |-> LoadedOnce.v]
          /\ d_line = LoadedOnce.line
          /\ environ = LoadedOnce.env
    /\ \E s \in Scenarios : ret = GoState(s, cachedConfig)

Running(g, fn, pc) == ret.op = "Go" /\ ret.prog[g].fn = fn /\ ret.g[g].pc = pc

\* every Set of the scenario has returned
SetsReturned ==
    \A h \in Goroutines : ret.prog[h].fn = "Set" => ret.g[h].pc = "done"

\* an access to the cache map by g is unsynchronised when g does not hold the
\* lock
Unsync(g) == ret.unsync \/ ret.owner # g

\* Set: key = strings.ToUpper(e.addPrefix(key))
GoSetKey(g) ==
    /\ Running(g, "Set", "start")
    /\ ret' = [ret EXCEPT !.g[g].key = SetKey(ret.prog[g].key),
                          !.g[g].pc = NextPc("Set", "start")]
    /\ UNCHANGED <<cachedConfig, prefix, allowEmptyEnvVars, configFile, mu, d_line, environ>>

\* LookUp before the lock: the empty key, and the environment
GoLookUpEnv(g) ==
    /\ Running(g, "LookUp", "start")
    /\ LET key == ret.prog[g].key
           k   == SetKey(key)
       IN ret' = IF key = <<>>
                 THEN [ret EXCEPT !.g[g].pc = "done", !.g[g].path = "empty"]
                 ELSE IF MapHas(environ, k) /\ environ[k] # <<>> /\ ~allowEmptyEnvVars
                 THEN [ret EXCEPT !.g[g].pc = "done", !.g[g].path = "env", !.g[g].key = k,
                                  !.g[g].val = Str(environ[k]), !.g[g].found = TRUE]
                 ELSE [ret EXCEPT !.g[g].pc = NextPc("LookUp", "start"), !.g[g].key = k,
                                  !.g[g].late = SetsReturned]
    /\ UNCHANGED <<cachedConfig, prefix, allowEmptyEnvVars, configFile, mu, d_line, environ>>

\* Load before the lock: the file is read and decoded into a map of Load's own
GoLoadDecode(g) ==
    /\ Running(g, "Load", "start")
    /\ LET file == ReadFile(configFile)
           dec  == Decode(TrimPrefix(file.data, utf8BOM), EmptyMap, d_line, environ)
       IN IF file.err # ErrNone
          THEN /\ ret' = [ret EXCEPT !.g[g].pc = "done", !.g[g].err = file.err]
               /\ UNCHANGED <<cachedConfig, d_line, environ>>
          ELSE /\ d_line' = dec.line
               /\ environ' = dec.env
               /\ cachedConfig' = DuringDecode(cachedConfig, dec.v)
               /\ ret' = IF dec.err # ErrNone
                         THEN [ret EXCEPT !.g[g].pc = "done", !.g[g].err = dec.err]
                         ELSE [ret EXCEPT !.g[g].pc = NextPc("Load", "start"),
                                          !.g[g].config = dec.v]
    /\ UNCHANGED <<prefix, allowEmptyEnvVars, configFile, mu>>

\* e.mu.Lock()
GoLock(g) ==
    /\ ret.op = "Go" /\ ret.g[g].pc = "lock"
    /\ mu = "free"
    /\ mu' = "held"
    /\ ret' = [ret EXCEPT !.owner = g, !.g[g].pc = NextPc(ret.prog[g].fn, "lock")]
    /\ UNCHANGED <<cachedConfig, prefix, allowEmptyEnvVars, configFile, d_line, environ>>

\* Set: e.cachedConfig[key] = value; on a nil map the goroutine panics here
GoSetWrite(g) ==
    /\ Running(g, "Set", "write")
    /\ IF cachedConfig.nil
       THEN /\ ret' = [ret EXCEPT !.g[g].pc = "panicked", !.unsync = Unsync(g)]
            /\ UNCHANGED cachedConfig
       ELSE /\ cachedConfig' = [cachedConfig EXCEPT
                                   !.m = MapPut(@, ret.g[g].key, ret.prog[g].value)]
            /\ ret' = [ret EXCEPT !.g[g].pc = NextPc("Set", "write"), !.unsync = Unsync(g)]
    /\ UNCHANGED <<prefix, allowEmptyEnvVars, configFile, mu, d_line, environ>>

\* LookUp: cachedEnv, okEnv := e.cachedConfig[key]
GoLookUpRead(g) ==
    /\ Running(g, "LookUp", "read")
    /\ LET k == ret.g[g].key
       IN ret' = [ret EXCEPT !.g[g].pc = NextPc("LookUp", "read"),
                             !.g[g].path = "cache",
                             !.g[g].saw = cachedConfig,
                             !.g[g].found = MapHas(cachedConfig.m, k),
                             !.g[g].val = IF MapHas(cachedConfig.m, k)
                                          THEN Str(cachedConfig.m[k]) ELSE Nil,
                             !.unsync = Unsync(g)]
    /\ UNCHANGED <<cachedConfig, prefix, allowEmptyEnvVars, configFile, mu, d_line, environ>>

\* Load: e.cachedConfig = config
GoLoadPublish(g) ==
    /\ Running(g, "Load", "publish")
    /\ cachedConfig' = [nil |-> FALSE, m |-> ret.g[g].config]
    /\ ret' = [ret EXCEPT !.g[g].pc = NextPc("Load", "publish"), !.unsync = Unsync(g)]
    /\ UNCHANGED <<prefix, allowEmptyEnvVars, configFile, mu, d_line, environ>>

\* e.mu.Unlock(), deferred in LookUp
GoUnlock(g) ==
    /\ ret.op = "Go" /\ ret.g[g].pc = "unlock"
    /\ mu' = "free"
    /\ ret' = [ret EXCEPT !.owner = "none", !.g[g].pc = NextPc(ret.prog[g].fn, "unlock")]
    /\ UNCHANGED <<cachedConfig, prefix, allowEmptyEnvVars, configFile, d_line, environ>>

NextConc ==
    \E g \in Goroutines :
        \/ GoSetKey(g)
        \/ GoLookUpEnv(g)
        \/ GoLoadDecode(g)
        \/ GoLock(g)
        \/ GoSetWrite(g)
        \/ GoLookUpRead(g)
        \/ GoLoadPublish(g)
        \/ GoUnlock(g)

SpecConc == InitConc /\ [][NextConc]_vars

----------------------------------------------------------------------------
(* The claims about goroutines *)

\* what a LookUp of the effective key k finds in the map m
AnswerIn(m, k) ==
    IF MapHas(m, k) THEN [val |-> Str(m[k]), found |-> TRUE]
    ELSE [val |-> Nil, found |-> FALSE]

Answer(g) == [val |-> ret.g[g].val, found |-> ret.g[g].found]

\* the goroutines that run Set on a key with the effective key k
SettersOf(k) ==
    { h \in Goroutines : ret.prog[h].fn = "Set" /\ SetKey(ret.prog[h].key) = k }

\* only Set and LookUp run, on a cache that was initialised
SetGetScenario ==
    /\ ret.op = "Go" /\ ~ret.init.nil
    /\ \A g \in Goroutines : ret.prog[g].fn \in {"Set", "LookUp"}

\* C21: with goroutines running Set on pairwise different keys and LookUp on
\* an initialised cache, every access to the cache map is made by the
\* goroutine that holds the lock; the entry of a Set that has written is in the
\* cache; a LookUp that has read returns the value its key had at the start or
\* the value a Set gives it; and a LookUp begun after all Sets returned returns
\* the value set.
C21_ConcurrentSetGet ==
    SetGetScenario =>
        /\ ~ret.unsync
        /\ \A g \in Goroutines :
              ret.g[g].pc \in {"write", "read", "unlock"} => (mu = "held" /\ ret.owner = g)
        /\ \A g \in Goroutines :
              (ret.prog[g].fn = "Set" /\ ret.g[g].pc \in {"unlock", "done"})
                 => AnswerIn(cachedConfig.m, ret.g[g].key)
                       = [val |-> Str(ret.prog[g].value), found |-> TRUE]
        /\ \A g \in Goroutines :
              (ret.prog[g].fn = "LookUp" /\ ret.g[g].path = "cache")
                 => /\ \/ Answer(g) = AnswerIn(ret.init.m, ret.g[g].key)
                       \/ \E h \in SettersOf(ret.g[g].key) :
                              Answer(g) = [val |-> Str(ret.prog[h].value), found |-> TRUE]
                    /\ ret.g[g].late
                          => \A h \in SettersOf(ret.g[g].key) :
                                 Answer(g) = [val |-> Str(ret.prog[h].value), found |-> TRUE]

\* C21 witness: two Sets and a LookUp have returned; the LookUp began after
\* the Sets returned and got the value set for its key, which is not the value
\* the key had at the start.
C21_Witness ==
    /\ SetGetScenario
    /\ \A g \in Goroutines : ret.g[g].pc = "done"
    /\ \E g \in Goroutines :
          /\ ret.prog[g].fn = "LookUp" /\ ret.g[g].late
          /\ SettersOf(ret.g[g].key) # {}
          /\ Answer(g) # AnswerIn(ret.init.m, ret.g[g].key)
    /\ Cardinality({g \in Goroutines : ret.prog[g].fn = "Set"}) = 2

\* only LookUp and Load run
LoadGetScenario ==
    /\ ret.op = "Go"
    /\ \A g \in Goroutines : ret.prog[g].fn \in {"LookUp", "Load"}

\* the cache a Load of the default file publishes
NewCache == [nil |-> FALSE, m |-> LoadedOnce.v]

\* C22: with goroutines running LookUp and a Load, the map a LookUp reads is
\* the whole cache from before the Load or the whole newly decoded cache, its
\* answer is what that map holds for its key, and the new map is assigned by
\* the goroutine that holds the lock.
C22_LoadPublishesWholeMap ==
    LoadGetScenario =>
        /\ ~ret.unsync
        /\ \A g \in Goroutines :
              ret.g[g].pc = "publish" => (mu = "held" /\ ret.owner = g)
        /\ cachedConfig \in {ret.init, NewCache}
        /\ \A g \in Goroutines :
              (ret.prog[g].fn = "LookUp" /\ ret.g[g].path = "cache")
                 => /\ ret.g[g].saw \in {ret.init, NewCache}
                    /\ Answer(g) = AnswerIn(ret.g[g].saw.m, ret.g[g].key)

\* C22 witness: on a registry that was new, a Load and two LookUps of one key
\* have returned; one LookUp read the cache from before the Load and found
\* nothing, the other read the decoded cache and found the entry.
C22_Witness ==
    /\ LoadGetScenario /\ ret.init.nil
    /\ \A g \in Goroutines : ret.g[g].pc = "done"
    /\ \E g, h \in Goroutines :
          /\ ret.prog[g] = ret.prog[h] /\ ret.prog[g].fn = "LookUp"
          /\ ret.g[g].saw = ret.init /\ ~ret.g[g].found
          /\ ret.g[h].saw = NewCache /\ ret.g[h].found

----------------------------------------------------------------------------
(* The process-wide instance: _global and _globalMu.  A test goroutine      *)
(* replaces and restores the instance while a worker calls package-level    *)
(* functions, statement by statement                                         *)

\* ReplaceDefault calls that are not yet undone
MaxNest == 2

\* the instance New() made for _global, and two instances made by the test
Instances == {"d0", "x1", "x2"}

Original == "d0"

\* the package-level functions the worker calls; Get, Set, Load and the other
\* wrappers are GetDotEnv() followed by a method of the instance it returned
WorkerCalls == {"GetDotEnv", "SetPrefix", "SetConfigFile"}

\* ReplaceDefault whose closure captures the new instance
Swap_CapturesNew(global, env) == [prev |-> env, global |-> env]

\* prev := _global; _global = env
Swap(global, env) == [prev |-> global, global |-> env]

IdleCall == [fn |-> "", arg |-> "none", pc |-> "idle", d |-> "none", stale |-> FALSE]

InitGlobal ==
    /\ cachedConfig = NilCache
    /\ prefix = <<>>
    /\ allowEmptyEnvVars = FALSE
    /\ configFile = DefaultConfigFile
    /\ mu = "free"
    /\ d_line = 0
    /\ environ = EmptyMap
    /\ ret = [op |-> "Global", global |-> Original, globalMu |-> "free", gowner |-> "none",
              closures |-> <<>>, before |-> <<>>, undo |-> "none",
              g |-> [x \in {"t", "w"} |-> IdleCall], unsync |-> FALSE]

Front(s) == SubSeq(s, 1, Len(s) - 1)

\* an access to _global by g is unsynchronised when g does not hold _globalMu
UnsyncGlobal(g) == ret.unsync \/ ret.gowner # g

At(g, pc) == ret.op = "Global" /\ ret.g[g].pc = pc

\* the test calls ReplaceDefault(x)
CallReplaceDefault(x) ==
    /\ At("t", "idle")
    /\ Len(ret.closures) < MaxNest
    /\ ret' = [ret EXCEPT !.g["t"] = [IdleCall EXCEPT !.fn = "ReplaceDefault", !.arg = x,
                                                      !.pc = "lock"],
                          !.before = Append(@, ret.global)]
    /\ UNCHANGED <<cachedConfig, prefix, allowEmptyEnvVars, configFile, mu, d_line, environ>>

\* the test calls the closure it got last: ReplaceDefault(prev)
CallRestore ==
    /\ At("t", "idle")
    /\ ret.closures # <<>>
    /\ ret' = [ret EXCEPT !.g["t"] = [IdleCall EXCEPT !.fn = "Restore",
                                         !.arg = ret.closures[Len(ret.closures)],
                                         !.pc = "lock"],
                          !.closures = Front(@),
                          !.undo = ret.before[Len(ret.before)],
                          !.before = Front(@)]
    /\ UNCHANGED <<cachedConfig, prefix, allowEmptyEnvVars, configFile, mu, d_line, environ>>

\* the worker calls a package-level function; SetConfigFile takes no lock
CallWorker(fn) ==
    /\ At("w", "idle")
    /\ ret' = [ret EXCEPT !.g["w"] = [IdleCall EXCEPT !.fn = fn,
                                         !.pc = IF fn = "SetConfigFile" THEN "check"
                                                ELSE "lock"]]
    /\ UNCHANGED <<cachedConfig, prefix, allowEmptyEnvVars, configFile, mu, d_line, environ>>

\* _globalMu.Lock()
GlobalLock(g) ==
    /\ At(g, "lock")
    /\ ret.globalMu = "free"
    /\ ret' = [ret EXCEPT !.globalMu = "held", !.gowner = g, !.g[g].pc = "access"]
    /\ UNCHANGED <<cachedConfig, prefix, allowEmptyEnvVars, configFile, mu, d_line, environ>>

\* ReplaceDefault: prev := _global; _global = env
ReplaceSwap ==
    /\ At("t", "access")
    /\ LET s == Swap(ret.global, ret.g["t"].arg)
       IN ret' = [ret EXCEPT !.global = s.global, !.g["t"].d = s.prev,
                             !.g["t"].pc = "unlock", !.g["w"].stale = TRUE,
                             !.unsync = UnsyncGlobal("t")]
    /\ UNCHANGED <<cachedConfig, prefix, allowEmptyEnvVars, configFile, mu, d_line, environ>>

\* GetDotEnv: d := _global; SetPrefix: _global.SetPrefix(prefix)
WorkerRead ==
    /\ At("w", "access")
    /\ ret' = [ret EXCEPT !.g["w"].d = ret.global, !.g["w"].pc = "unlock",
                          !.unsync = UnsyncGlobal("w")]
    /\ UNCHANGED <<cachedConfig, prefix, allowEmptyEnvVars, configFile, mu, d_line, environ>>

\* _globalMu.Unlock()
GlobalUnlock(g) ==
    /\ At(g, "unlock")
    /\ ret' = [ret EXCEPT !.globalMu = "free", !.gowner = "none", !.g[g].pc = "return"]
    /\ UNCHANGED <<cachedConfig, prefix, allowEmptyEnvVars, configFile, mu, d_line, environ>>

\* ReplaceDefault returns its closure, which the test keeps; the call made by
\* a closure returns a closure nobody keeps
ReplaceReturn ==
    /\ At("t", "return")
    /\ ret' = [ret EXCEPT !.g["t"].pc = "idle",
                          !.closures = IF ret.g["t"].fn = "ReplaceDefault"
                                       THEN Append(@, ret.g["t"].d) ELSE @]
    /\ UNCHANGED <<cachedConfig, prefix, allowEmptyEnvVars, configFile, mu, d_line, environ>>

WorkerReturn ==
    /\ At("w", "return")
    /\ ret' = [ret EXCEPT !.g["w"].pc = "idle"]
    /\ UNCHANGED <<cachedConfig, prefix, allowEmptyEnvVars, configFile, mu, d_line, environ>>

\* SetConfigFile: if _global == nil (it never is: the instances are not nil)
SetConfigFileCheck ==
    /\ At("w", "check")
    /\ ret' = [ret EXCEPT !.g["w"].pc = "call", !.unsync = UnsyncGlobal("w")]
    /\ UNCHANGED <<cachedConfig, prefix, allowEmptyEnvVars, configFile, mu, d_line, environ>>

\* SetConfigFile: _global.SetConfigFile(configFile)
SetConfigFileCall ==
    /\ At("w", "call")
    /\ ret' = [ret EXCEPT !.g["w"].d = ret.global, !.g["w"].pc = "idle",
                          !.unsync = UnsyncGlobal("w")]
    /\ UNCHANGED <<cachedConfig, prefix, allowEmptyEnvVars, configFile, mu, d_line, environ>>

NextGlobal ==
    \/ \E x \in Instances : CallReplaceDefault(x)
    \/ CallRestore
    \/ \E fn \in WorkerCalls : CallWorker(fn)
    \/ \E g \in {"t", "w"} : GlobalLock(g)
    \/ ReplaceSwap
    \/ WorkerRead
    \/ \E g \in {"t", "w"} : GlobalUnlock(g)
    \/ ReplaceReturn
    \/ WorkerReturn
    \/ SetConfigFileCheck
    \/ SetConfigFileCall

SpecGlobal == InitGlobal /\ [][NextGlobal]_vars

----------------------------------------------------------------------------
(* The claims about the process-wide instance *)

\* C23: when ReplaceDefault(x) has returned, x is the global instance, and it
\* is the instance a package-level function called since then has got; when
\* a closure has returned, the global instance is the one that was global when
\* the ReplaceDefault that made the closure was called; and when every closure
\* has been called, the last got first, the original instance is global again.
C23_ReplaceAndRestore ==
    (ret.op = "Global" /\ ret.g["t"].pc = "idle") =>
        /\ ret.g["t"].fn = "ReplaceDefault" => ret.global = ret.g["t"].arg
        /\ ret.g["t"].fn = "Restore" => ret.global = ret.undo
        /\ ret.closures = <<>> => ret.global = Original
        /\ (ret.g["w"].pc = "idle" /\ ret.g["w"].fn # "" /\ ~ret.g["w"].stale)
              => ret.g["w"].d = ret.global

\* C23 witness: after two nested ReplaceDefault calls with different instances
\* both closures have been called and the original instance is global again,
\* and GetDotEnv, called since, returned it.
C23_Witness ==
    /\ ret.op = "Global" /\ ret.g["t"].pc = "idle"
    /\ ret.g["t"].fn = "Restore" /\ ret.closures = <<>>
    /\ ret.g["t"].arg = Original /\ ret.g["t"].d = "x1"
    /\ ret.g["w"].pc = "idle" /\ ret.g["w"].fn = "GetDotEnv" /\ ~ret.g["w"].stale
    /\ ret.g["w"].d = Original

\* C29: every read and write of _global by a package-level function is made
\* by a goroutine that holds _globalMu.
C29_GlobalPointerLocked ==
    ret.op = "Global" => ~ret.unsync

----------------------------------------------------------------------------
(* Unmarshal (dotenv.go): binding the fields of a struct *)

ErrExpectedStruct == "expected a struct"
ErrUnsupported    == "unsupported type"
ErrInvalidText    == "invalid duration"
ErrRecovered      == "recovered panic"

\* GetString(key): cast.ToString of what Get returns, "" for nil
GetString(key) == LET v == Get(key) IN IF v.nil THEN <<>> ELSE castToString(v.s)

Digits == <<"0", "1", "2", "3", "4", "5", "6", "7", "8", "9">>

IsDigit(c) == \E i \in DOMAIN Digits : Digits[i] = c

DigitOf(c) == (CHOOSE i \in DOMAIN Digits : Digits[i] = c) - 1

RECURSIVE DecimalOf(_)
DecimalOf(s) == IF s = <<>> THEN 0 ELSE 10 * DecimalOf(Front(s)) + DigitOf(s[Len(s)])

IsDecimal(s) == s # <<>> /\ \A i \in DOMAIN s : IsDigit(s[i])

\* cast.ToInt64 of a string: the number a decimal numeral names, 0 for any
\* other text (the error is dropped)
castToInt64(s) == IF IsDecimal(s) /\ (Len(s) = 1 \/ s[1] # "0") THEN DecimalOf(s) ELSE 0

\* customDuration.UnmarshalText: time.ParseDuration accepts a decimal numeral
\* followed by a unit, and refuses the empty text and a numeral without unit
UnmarshalText(text) ==
    IF Len(text) >= 2 /\ IsDecimal(Front(text)) /\ text[Len(text)] \in {"s", "m", "h"}
    THEN [err |-> ErrNone, value |-> text]
    ELSE [err |-> ErrInvalidText, value |-> <<>>]

\* a struct field: its kind, whether it is exported, its env and default
\* tags ("" when absent) and, for a struct field, the name of its struct type
Field(kind, env, def) ==
    [kind |-> kind, exported |-> TRUE, env |-> env, def |-> def, sub |-> ""]

\* the struct types of the destinations, as their fields in order
StructFields(typ) ==
    CASE typ = "Plain" ->
           <<Field("string", <<"a">>, <<"5">>), Field("int", <<"a">>, <<>>),
             Field("string", <<"b">>, <<>>), Field("int", <<>>, <<"7">>)>>
      [] typ = "Text" -> <<Field("text", <<"a">>, <<"5", "m">>)>>
      [] typ = "TextNoDefault" ->
           <<Field("string", <<"a">>, <<>>), Field("text", <<"b">>, <<>>)>>
      [] typ = "Chan" -> <<Field("string", <<"a">>, <<"5">>), Field("chan", <<"a">>, <<>>)>>
      [] typ = "Hidden" ->
           <<Field("string", <<"a">>, <<"5">>),
             [Field("string", <<"a">>, <<>>) EXCEPT !.exported = FALSE]>>
      [] typ = "Outer" ->
           <<[Field("struct", <<>>, <<>>) EXCEPT !.sub = "Plain"],
             Field("string", <<"A">>, <<"6">>)>>
      [] typ = "OuterHidden" ->
           <<[Field("struct", <<>>, <<>>) EXCEPT !.sub = "Hidden"],
             Field("string", <<"a">>, <<>>)>>
      [] typ = "OuterChan" -> <<[Field("struct", <<>>, <<>>) EXCEPT !.sub = "Chan"]>>

StructTypes == {"Plain", "Text", "TextNoDefault", "Chan", "Hidden", "Outer",
                "OuterHidden", "OuterChan"}

\* the destinations handed to Unmarshal: nil, a struct passed by value, a
\* pointer to an int, a nil pointer to a struct, and pointers to structs
Destinations ==
    {[kind |-> "nil", typ |-> ""], [kind |-> "struct", typ |-> "Plain"],
     [kind |-> "ptr", typ |-> "int"], [kind |-> "nilptr", typ |-> "Plain"]}
    \cup {[kind |-> "ptr", typ |-> t] : t \in StructTypes}

\* the zero value of a field and of a struct
RECURSIVE ZeroStruct(_)
ZeroField(f) ==
    CASE f.kind = "int" -> 0
      [] f.kind = "struct" -> ZeroStruct(f.sub)
      [] OTHER -> <<>>

ZeroStruct(typ) == [i \in DOMAIN StructFields(typ) |-> ZeroField(StructFields(typ)[i])]

\* getConfigVal that prefers the default tag
getConfigVal_DefaultFirst(f) ==
    IF f.def # <<>> THEN f.def
    ELSE IF f.env # <<>> THEN GetString(f.env)
    ELSE <<>>

\* getConfigVal: the value GetString resolves for the env tag when there is
\* one and it is not empty, else the default tag, else ""
getConfigVal(f) ==
    IF f.env # <<>> /\ GetString(f.env) # <<>> THEN GetString(f.env)
    ELSE IF f.def # <<>> THEN f.def
    ELSE <<>>

\* GetString waits for e.mu when the environment does not answer
ConfigValBlocks(f) == f.env # <<>> /\ LookUpResult(f.env).outcome = "blocked"

Returns(err, val) == [outcome |-> "return", err |-> err, val |-> val]

\* the deferred function left out: a panic leaves Unmarshal
Recover_Propagates(r) == r

\* the deferred function: a recovered panic becomes the returned error
Recover(r) ==
    IF r.outcome = "panic" THEN [r EXCEPT !.outcome = "return", !.err = ErrRecovered]
    ELSE r

\* the loop over the fields of the struct val, from field i on; the call for
\* a nested struct is a call of Unmarshal with the pointer to the field
RECURSIVE BindFields(_, _, _)
BindFields(typ, i, val) ==
    LET f == StructFields(typ)[i]
    IN IF i > Len(StructFields(typ)) THEN Returns(ErrNone, val)
       ELSE IF ~f.exported THEN [Returns(ErrNone, val) EXCEPT !.outcome = "panic"]
       ELSE IF f.kind = "text"
       THEN IF ConfigValBlocks(f) THEN [Returns(ErrNone, val) EXCEPT !.outcome = "blocked"]
            ELSE LET m == UnmarshalText(getConfigVal(f))
                 IN IF m.err # ErrNone THEN Returns(m.err, val)
                    ELSE BindFields(typ, i + 1, [val EXCEPT ![i] = m.value])
       ELSE IF f.kind = "struct"
       THEN LET r == Recover(BindFields(f.sub, 1, val[i]))
            IN IF r.outcome = "blocked" \/ r.err # ErrNone
               THEN [r EXCEPT !.val = [val EXCEPT ![i] = r.val]]
               ELSE BindFields(typ, i + 1, [val EXCEPT ![i] = r.val])
       ELSE IF ConfigValBlocks(f) THEN [Returns(ErrNone, val) EXCEPT !.outcome = "blocked"]
       ELSE IF f.kind = "string"
       THEN BindFields(typ, i + 1, [val EXCEPT ![i] = castToString(getConfigVal(f))])
       ELSE IF f.kind = "int"
       THEN BindFields(typ, i + 1, [val EXCEPT ![i] = castToInt64(getConfigVal(f))])
       ELSE Returns(ErrUnsupported, val)

\* the body of Unmarshal: Elem panics on nil and on a value that is not a
\* pointer; what a pointer points to must be a struct
UnmarshalBody(v) ==
    IF v.kind \in {"nil", "struct"} THEN [Returns(ErrNone, <<>>) EXCEPT !.outcome = "panic"]
    ELSE IF v.kind = "nilptr" \/ v.typ \notin StructTypes
    THEN Returns(ErrExpectedStruct, <<>>)
    ELSE BindFields(v.typ, 1, ZeroStruct(v.typ))

\* Unmarshal(v) on a destination whose struct holds zero values
Unmarshal(v) ==
    LET r == Recover(UnmarshalBody(v))
    IN /\ ret' = [op |-> "Unmarshal", v |-> v, outcome |-> r.outcome, err |-> r.err,
                  val |-> r.val]
       /\ UNCHANGED <<cachedConfig, prefix, allowEmptyEnvVars, configFile, mu, d_line, environ>>

\* the calls that decide what GetString resolves, and Unmarshal
NextUnmarshal ==
    \/ \E p \in Prefixes : SetPrefix(p)
    \/ \E b \in BOOLEAN : AllowEmptyEnvVars(b)
    \/ Load
    \/ \E k \in SetKeys, v \in Values : Set(k, v)
    \/ \E n \in EnvNames, v \in EnvValues : OsSetenv(n, v)
    \/ \E v \in Destinations : Unmarshal(v)

SpecUnmarshal == Init /\ [][NextUnmarshal]_vars

----------------------------------------------------------------------------
(* The claims about Unmarshal *)

\* Unmarshal has returned for a pointer to a struct
Unmarshalled ==
    /\ ret.op = "Unmarshal" /\ ret.outcome = "return"
    /\ ret.v.kind = "ptr" /\ ret.v.typ \in StructTypes

\* what GetString resolves for the env tag of a field, "" without a tag
Resolved(f) == IF f.env = <<>> THEN <<>> ELSE GetString(f.env)

\* the value a field is to hold: the resolved text or else the default,
\* as a string, as the integer it names, or as the duration text
Bound(f) ==
    LET x == IF Resolved(f) # <<>> THEN Resolved(f) ELSE f.def
    IN IF f.kind = "int" THEN castToInt64(x) ELSE x

RECURSIVE BoundAll(_, _)
BoundAll(typ, val) ==
    \A i \in DOMAIN StructFields(typ) :
        LET f == StructFields(typ)[i]
        IN IF f.kind = "struct" THEN BoundAll(f.sub, val[i]) ELSE val[i] = Bound(f)

\* C24: when Unmarshal returns without error, every field holds the value
\* GetString resolves for its env tag when that value is not empty, and its
\* default tag otherwise; the fields of a nested struct likewise.
C24_FieldsBound ==
    (Unmarshalled /\ ret.err = ErrNone) => BoundAll(ret.v.typ, ret.val)

\* C24 witness: a struct with a nested struct was bound; in the nested struct
\* the field with both tags holds the resolved value, which is not its
\* default, and the field that resolves to nothing holds its default.
C24_Witness ==
    /\ Unmarshalled /\ ret.err = ErrNone /\ ret.v.typ = "Outer"
    /\ GetString(<<"a">>) \notin {<<>>, <<"5">>}
    /\ ret.val[1][1] = GetString(<<"a">>)
    /\ ret.val[1][4] = 7
    /\ ret.val[2] = GetString(<<"A">>)

\* a field of a supported type, or of a text-unmarshal type, without default
\* whose resolved value is empty
EmptyNoDefault(f) ==
    /\ f.kind \in {"string", "int", "text"} /\ f.exported
    /\ f.def = <<>> /\ Resolved(f) = <<>>

\* a field that makes Unmarshal fail for another reason
FailsOtherwise(f) ==
    \/ ~f.exported
    \/ f.kind \in {"chan", "struct"}
    \/ f.kind = "text" /\ ~EmptyNoDefault(f) /\ UnmarshalText(Bound(f)).err # ErrNone

\* C25: when no field fails for another reason, Unmarshal returns no error
\* and every field without default whose resolved value is empty holds its
\* zero value, a field of a text-unmarshal type too.
C25_EmptyFieldLeftZero ==
    (Unmarshalled /\ \A i \in DOMAIN StructFields(ret.v.typ) :
                        ~FailsOtherwise(StructFields(ret.v.typ)[i]))
    => /\ ret.err = ErrNone
       /\ \A i \in DOMAIN StructFields(ret.v.typ) :
             EmptyNoDefault(StructFields(ret.v.typ)[i])
                => ret.val[i] = ZeroField(StructFields(ret.v.typ)[i])

\* a struct type with a field that cannot be bound, at any depth: a field of
\* an unsupported type, or an unexported field (reflection panics on it)
RECURSIVE HasFault(_)
HasFault(typ) ==
    \E i \in DOMAIN StructFields(typ) :
        LET f == StructFields(typ)[i]
        IN \/ ~f.exported
           \/ f.kind = "chan"
           \/ f.kind = "struct" /\ HasFault(f.sub)

\* C26: no panic leaves Unmarshal, and when it returns for a destination
\* that is nil, is not a pointer, does not point to a struct, or points to a
\* struct with a field that cannot be bound, it returns an error.
C26_NeverPanics ==
    ret.op = "Unmarshal" =>
        /\ ret.outcome # "panic"
        /\ (ret.outcome = "return"
            /\ (ret.v.kind # "ptr" \/ ret.v.typ \notin StructTypes \/ HasFault(ret.v.typ)))
           => ret.err # ErrNone

\* C26 witness: reflection panicked on the unexported field of a nested
\* struct and Unmarshal returned the recovered panic as its error.
C26_Witness ==
    /\ Unmarshalled /\ ret.v.typ = "OuterHidden"
    /\ ret.err = ErrRecovered

----------------------------------------------------------------------------
(* The claims about what a failing call leaves behind *)

\* C27: when Decode returns an error the environment is as it was before
\* the call (empty): no exported line of the failing document has set a
\* variable.
C27_FailingDecodeSetsNoEnv ==
    (Returned /\ ret.st.err # ErrNone) => environ = EmptyMap

\* C28: whenever Load, LookUp or Set returns or panics, e.mu is free.
C28_LockNeverEscapes ==
    (ret.op \in {"Load", "LookUp", "Set"} /\ ret.outcome \in {"return", "panic"})
        => mu = "free"

----------------------------------------------------------------------------
(* GetSizeInBytes (dotenv.go): a size text with a unit, in bytes *)

\* the width given to uint: the widest whose values the checker's integers
\* hold (Go's uint has 32 or 64 bits); 1<<30 fits, and twice that does not
UintBits == 31

HalfUint == 2^(UintBits - 1)

MaxUint == (HalfUint - 1) + HalfUint

\* x + x and x + a in uint, wrapping around
WrapDouble(x) == IF x >= HalfUint THEN (x - HalfUint) * 2 ELSE x * 2

WrapAdd(x, a) == IF x > MaxUint - a THEN (x - (MaxUint - a)) - 1 ELSE x + a

\* a * b in uint, wrapping around
RECURSIVE WrapMul(_, _)
WrapMul(a, b) ==
    IF b = 0 THEN 0
    ELSE LET h == WrapDouble(WrapMul(a, b \div 2))
         IN IF b % 2 = 1 THEN WrapAdd(h, a) ELSE h

safeMul(a, b) ==
    LET c == WrapMul(a, b)
    IN IF a > 1 /\ b > 1 /\ c \div b # a THEN 0 ELSE c

ToLowerChar(c) ==
    IF \E i \in DOMAIN Upper : Upper[i] = c
    THEN Lower[CHOOSE i \in DOMAIN Upper : Upper[i] = c]
    ELSE c

\* cast.ToInt of a string: the integer a decimal numeral with an optional
\* minus sign names, 0 for any other text (the error is dropped)
castToInt(s) ==
    IF s # <<>> /\ s[1] = "-" THEN 0 - castToInt64(Tail(s)) ELSE castToInt64(s)

parseSizeInBytes(str) ==
    LET sizeStr  == TrimSpace(str)
        last     == Len(sizeStr)
        stripped ==
            IF last - 1 > 0 /\ sizeStr[last] \in {"b", "B"} /\ last - 1 > 1
            THEN LET u == ToLowerChar(sizeStr[last - 1])
                 IN CASE u = "k" -> [multiplier |-> 2^10,
                                     sizeStr |-> TrimSpace(SubSeq(sizeStr, 1, last - 2))]
                      [] u = "m" -> [multiplier |-> 2^20,
                                     sizeStr |-> TrimSpace(SubSeq(sizeStr, 1, last - 2))]
                      [] u = "g" -> [multiplier |-> 2^30,
                                     sizeStr |-> TrimSpace(SubSeq(sizeStr, 1, last - 2))]
                      [] OTHER   -> [multiplier |-> 1,
                                     sizeStr |-> TrimSpace(SubSeq(sizeStr, 1, last - 1))]
            ELSE [multiplier |-> 1, sizeStr |-> sizeStr]
        size     == castToInt(stripped.sizeStr)
    IN safeMul(IF size < 0 THEN 0 ELSE size, stripped.multiplier)

\* the numbers, signs, spaces and units of the size texts
SizeNumbers == {<<"0">>, <<"1">>, <<"2">>, <<"5">>, <<"9">>, <<"1", "0">>, <<"1", "2">>,
                <<"9", "9">>, <<"1", "0", "2", "4">>, <<"3", "0", "0", "0">>}

SizeSigns == {<<>>, <<"-">>}

SizeSpaces == {<<>>, <<" ">>, <<" ", " ">>}

SizeUnits == {<<"b">>, <<"B">>, <<"k", "b">>, <<"K", "B">>, <<"k", "B">>, <<"m", "b">>,
              <<"M", "b">>, <<"M", "B">>, <<"g", "b">>, <<"G", "B">>}

SizeKey == <<"s", "i", "z", "e">>

\* a registry whose configuration file was the line size=<text>
InitSize ==
    /\ \E sign \in SizeSigns, n \in SizeNumbers, sp \in SizeSpaces, unit \in SizeUnits :
          /\ cachedConfig = [nil |-> FALSE,
                             m |-> Decode(SizeKey \o <<"=">> \o sign \o n \o sp \o unit,
                                          EmptyMap, 0, EmptyMap).v]
          /\ ret = [op |-> "Size", pc |-> "call", negative |-> sign # <<>>, n |-> n,
                    unit |-> unit, size |-> 0]
    /\ prefix = <<>>
    /\ allowEmptyEnvVars = FALSE
    /\ configFile = DefaultConfigFile
    /\ mu = "free"
    /\ d_line = 1
    /\ environ = EmptyMap

\* GetSizeInBytes(key)
GetSizeInBytes(key) ==
    /\ ret.op = "Size" /\ ret.pc = "call"
    /\ LET v == Get(key)
       IN ret' = [ret EXCEPT !.pc = "done",
                     !.size = parseSizeInBytes(IF v.nil THEN <<>> ELSE castToString(v.s))]
    /\ UNCHANGED <<cachedConfig, prefix, allowEmptyEnvVars, configFile, mu, d_line, environ>>

NextSize == GetSizeInBytes(SizeKey)

SpecSize == InitSize /\ [][NextSize]_vars

----------------------------------------------------------------------------
(* The claim about GetSizeInBytes *)

\* the multiplier a unit stands for
UnitMultiplier(unit) ==
    CASE Len(unit) = 1 -> 1
      [] ToLowerChar(unit[1]) = "k" -> 2^10
      [] ToLowerChar(unit[1]) = "m" -> 2^20
      [] ToLowerChar(unit[1]) = "g" -> 2^30

\* C30: for the text of a number n, optional spaces and a unit,
\* GetSizeInBytes returns n times the unit's multiplier; 0 when n is negative,
\* and 0 when the product does not fit in uint.
C30_SizeInBytes ==
    (ret.op = "Size" /\ ret.pc = "done") =>
        LET n == DecimalOf(ret.n)
            mult == UnitMultiplier(ret.unit)
        IN ret.size = IF ret.negative \/ n > MaxUint \div mult THEN 0 ELSE n * mult

====
